---- MODULE Spec2Model ----
(***************************************************************************)
(* Model of sndl.py, the sequential-number file downloader.                *)
(*                                                                         *)
(* Strings are sequences of one-character strings, so that the regular     *)
(* expression search, the split, the marker replacement, the format call   *)
(* and the zero padding are computed character by character.               *)
(* The HTTP transport (http.client) and the file system are the            *)
(* environment: every result they can hand back to the program is a        *)
(* nondeterministic choice of the action that calls them.                  *)
(***************************************************************************)
EXTENDS Integers, Sequences, FiniteSets, TLC

\* ------------------------------------------------------------------------
\* Bounds of the model
\* ------------------------------------------------------------------------

\* largest Content-Length a response declares
MaxLen == 2

\* largest number of body bytes the transport delivers for one response
MaxBody == 2

\* ------------------------------------------------------------------------
\* Program constants
\* ------------------------------------------------------------------------

\* default of do_reconnecting's interval parameter: 60 * 3
Interval == 180

\* amount asked of response.read
ChunkSize == 4096

\* get_content takes the success branch for response.status < 300
StatusLimit == 300

\* ------------------------------------------------------------------------
\* Characters and numerals
\* ------------------------------------------------------------------------

Digits == <<"0", "1", "2", "3", "4", "5", "6", "7", "8", "9">>

IsDigit(c) == \E d \in 1..10 : Digits[d] = c

DigitVal(c) == (CHOOSE d \in 1..10 : Digits[d] = c) - 1

\* the character class [0-9,-] of the regular expression of parse_url
InClass(c) == IsDigit(c) \/ c = "," \/ c = "-"

AllDigits(s) == Len(s) >= 1 /\ \A k \in 1..Len(s) : IsDigit(s[k])

\* int(literal) for a literal of [0-9]+
RECURSIVE ToInt(_)
ToInt(s) ==
    IF Len(s) = 0 THEN 0
    ELSE 10 * ToInt(SubSeq(s, 1, Len(s) - 1)) + DigitVal(s[Len(s)])

\* str(i) for i >= 0: the decimal numeral without leading zeros
RECURSIVE Str(_)
Str(i) ==
    IF i < 10 THEN <<Digits[i + 1]>>
    ELSE Str(i \div 10) \o <<Digits[(i % 10) + 1]>>

RECURSIVE Zeros(_)
Zeros(n) == IF n <= 0 THEN <<>> ELSE <<"0">> \o Zeros(n - 1)

\* ------------------------------------------------------------------------
\* parse_url
\* ------------------------------------------------------------------------

\* length of the run of class characters that starts at position p
RECURSIVE RunLen(_, _)
RunLen(path, p) ==
    IF p > Len(path) \/ ~InClass(path[p]) THEN 0
    ELSE 1 + RunLen(path, p + 1)

\* \[([0-9,-]+)\] matches at position p
MatchAt(path, p) ==
    /\ p <= Len(path)
    /\ path[p] = "["
    /\ RunLen(path, p + 1) >= 1
    /\ p + 1 + RunLen(path, p + 1) <= Len(path)
    /\ path[p + 1 + RunLen(path, p + 1)] = "]"

HasMatch(path) == \E p \in 1..Len(path) : MatchAt(path, p)

\* re.search returns the leftmost match: m.start() (one-based)
MatchStart(path) ==
    CHOOSE p \in 1..Len(path) :
        MatchAt(path, p) /\ \A q \in 1..(p - 1) : ~MatchAt(path, q)

\* position of the closing bracket of the match
MatchClose(path) == MatchStart(path) + 1 + RunLen(path, MatchStart(path) + 1)

Marker == <<"[", "*", "]">>

\* str.split(','): the pieces between the commas, empty pieces included
RECURSIVE Split(_)
Split(s) ==
    IF \A k \in 1..Len(s) : s[k] # "," THEN <<s>>
    ELSE LET c == CHOOSE k \in 1..Len(s) :
                      s[k] = "," /\ \A j \in 1..(k - 1) : s[j] # ","
         IN  <<SubSeq(s, 1, c - 1)>> \o Split(SubSeq(s, c + 1, Len(s)))

\* the list comprehension's filter: if not x.strip() == ''
\* (strip itself changes nothing: the class holds no white space)
RECURSIVE DropEmpty(_)
DropEmpty(ts) ==
    IF Len(ts) = 0 THEN <<>>
    ELSE IF Len(Head(ts)) = 0 THEN DropEmpty(Tail(ts))
    ELSE <<Head(ts)>> \o DropEmpty(Tail(ts))

\* 'path' of the returned dictionary
TemplateOf(path) ==
    SubSeq(path, 1, MatchStart(path) - 1) \o Marker
        \o SubSeq(path, MatchClose(path) + 1, Len(path))

\* 'ranges' of the returned dictionary
RangesOf(path) ==
    DropEmpty(Split(SubSeq(path, MatchStart(path) + 1, MatchClose(path) - 1)))

\* parse_url on a URL whose urlparse path is path; ok = FALSE is the
\* ValueError "The range is not specified."
parse_url(path) ==
    IF ~HasMatch(path) THEN [ok |-> FALSE, path |-> <<>>, ranges |-> <<>>]
    ELSE [ok |-> TRUE, path |-> TemplateOf(path), ranges |-> RangesOf(path)]

\* ------------------------------------------------------------------------
\* get_digit and parse_range
\* ------------------------------------------------------------------------

\* position of the hyphen when the token fully matches ([0-9]+)-([0-9]+), else 0
DashPos(t) ==
    IF \E k \in 2..(Len(t) - 1) :
           /\ t[k] = "-"
           /\ AllDigits(SubSeq(t, 1, k - 1))
           /\ AllDigits(SubSeq(t, k + 1, Len(t)))
    THEN CHOOSE k \in 2..(Len(t) - 1) :
           /\ t[k] = "-"
           /\ AllDigits(SubSeq(t, 1, k - 1))
           /\ AllDigits(SubSeq(t, k + 1, Len(t)))
    ELSE 0

\* mutant: the width is recomputed from the integer value of the start
get_digit_recomputed(t) ==
    IF DashPos(t) > 0
    THEN [ok |-> TRUE, digit |-> Len(Str(ToInt(SubSeq(t, 1, DashPos(t) - 1))))]
    ELSE IF AllDigits(t) THEN [ok |-> TRUE, digit |-> Len(Str(ToInt(t)))]
    ELSE [ok |-> FALSE, digit |-> 0]

\* mutant: the end literal of a dash form may be missing
get_digit_loose(t) ==
    IF DashPos(t) > 0 THEN [ok |-> TRUE, digit |-> DashPos(t) - 1]
    ELSE IF AllDigits(t) THEN [ok |-> TRUE, digit |-> Len(t)]
    ELSE IF Len(t) >= 2 /\ t[Len(t)] = "-"
            /\ AllDigits(SubSeq(t, 1, Len(t) - 1))
    THEN [ok |-> TRUE, digit |-> Len(t) - 1]
    ELSE [ok |-> FALSE, digit |-> 0]

\* get_digit: ok = FALSE is the ValueError "Wrong range format."
get_digit(t) ==
    IF DashPos(t) > 0 THEN [ok |-> TRUE, digit |-> DashPos(t) - 1]
    ELSE IF AllDigits(t) THEN [ok |-> TRUE, digit |-> Len(t)]
    ELSE [ok |-> FALSE, digit |-> 0]

\* range(begin, end + 1) as the sequence of its values
RangeSeq(begin, end) ==
    IF end < begin THEN <<>> ELSE [k \in 1..(end - begin + 1) |-> begin + k - 1]

\* mutant: a descending range is not swapped
NormalizeNoSwap(begin, end) == <<begin, end>>

\* the swap of parse_range: if begin > end: begin, end = end, begin
Normalize(begin, end) ==
    IF begin > end THEN <<end, begin>> ELSE <<begin, end>>

\* parse_range: ok = FALSE is the ValueError "Wrong range format."
parse_range(t) ==
    IF DashPos(t) > 0
    THEN LET be == Normalize(ToInt(SubSeq(t, 1, DashPos(t) - 1)),
                             ToInt(SubSeq(t, DashPos(t) + 1, Len(t))))
         IN  [ok |-> TRUE, vals |-> RangeSeq(be[1], be[2])]
    ELSE IF AllDigits(t)
    THEN [ok |-> TRUE, vals |-> RangeSeq(ToInt(t), ToInt(t))]
    ELSE [ok |-> FALSE, vals |-> <<>>]

\* ------------------------------------------------------------------------
\* The item's path: o['path'].replace('[*]', '{:>0' + str(digit) + '}')
\*                           .format(str(i))
\* ------------------------------------------------------------------------

\* the replacement field '{:>0' + str(digit) + '}'
FieldText(digit) == <<"{", ":", ">", "0">> \o Str(digit) \o <<"}">>

IsMarkerAt(s, k) ==
    k + 2 <= Len(s) /\ SubSeq(s, k, k + 2) = Marker

\* str.replace: every non-overlapping occurrence, left to right
RECURSIVE ReplaceFrom(_, _, _)
ReplaceFrom(s, k, repl) ==
    IF k > Len(s) THEN <<>>
    ELSE IF IsMarkerAt(s, k) THEN repl \o ReplaceFrom(s, k + 3, repl)
    ELSE <<s[k]>> \o ReplaceFrom(s, k + 1, repl)

Replace(s, repl) == ReplaceFrom(s, 1, repl)

\* '{:>0w}'.format(s): fill '0', right-aligned, minimum width w
Pad(s, w) == IF Len(s) >= w THEN s ELSE Zeros(w - Len(s)) \o s

FormatFail == [ok |-> FALSE, val |-> <<>>, mode |-> "none"]

\* position of the '}' that closes a field opened just before position k;
\* 0 when the string ends first or another '{' comes first
FieldEnd(t, k) ==
    IF \E e \in k..Len(t) :
           t[e] = "}" /\ \A j \in k..(e - 1) : t[j] # "}" /\ t[j] # "{"
    THEN CHOOSE e \in k..Len(t) :
           t[e] = "}" /\ \A j \in k..(e - 1) : t[j] # "}" /\ t[j] # "{"
    ELSE 0

\* one replacement field with the single positional argument arg.
\* mode: "none" before any field, "auto" after an automatically numbered
\* one, "manual" after {0}.  A second automatic field asks for argument 1
\* (IndexError), a named field raises KeyError, mixing numbering styles
\* raises ValueError.  Format specifications other than the empty one and
\* >0<digits> do not occur in the modelled inputs and are failures here.
FormatField(body, arg, mode) ==
    LET c    == IF \E k \in 1..Len(body) : body[k] = ":"
                THEN CHOOSE k \in 1..Len(body) :
                         body[k] = ":" /\ \A j \in 1..(k - 1) : body[j] # ":"
                ELSE Len(body) + 1
        name == SubSeq(body, 1, c - 1)
        spec == SubSeq(body, c + 1, Len(body))
        nameOk == \/ name = <<>> /\ mode = "none"
                  \/ name = <<"0">> /\ mode # "auto"
        specOk == \/ spec = <<>>
                  \/ /\ Len(spec) >= 2
                     /\ spec[1] = ">"
                     /\ spec[2] = "0"
                     /\ \A k \in 3..Len(spec) : IsDigit(spec[k])
    IN  IF ~nameOk \/ ~specOk THEN FormatFail
        ELSE [ok   |-> TRUE,
              val  |-> IF spec = <<>> THEN arg
                       ELSE Pad(arg, ToInt(SubSeq(spec, 3, Len(spec)))),
              mode |-> IF name = <<>> THEN "auto" ELSE "manual"]

\* str.format with one positional argument
RECURSIVE FormatFrom(_, _, _, _)
FormatFrom(t, k, arg, mode) ==
    IF k > Len(t) THEN [ok |-> TRUE, val |-> <<>>, mode |-> mode]
    ELSE IF t[k] = "{" /\ k < Len(t) /\ t[k + 1] = "{"
    THEN LET r == FormatFrom(t, k + 2, arg, mode)
         IN  IF r.ok THEN [r EXCEPT !.val = <<"{">> \o @] ELSE FormatFail
    ELSE IF t[k] = "}" /\ k < Len(t) /\ t[k + 1] = "}"
    THEN LET r == FormatFrom(t, k + 2, arg, mode)
         IN  IF r.ok THEN [r EXCEPT !.val = <<"}">> \o @] ELSE FormatFail
    ELSE IF t[k] = "}" THEN FormatFail
    ELSE IF t[k] = "{"
    THEN IF FieldEnd(t, k + 1) = 0 THEN FormatFail
         ELSE LET e == FieldEnd(t, k + 1)
                  f == FormatField(SubSeq(t, k + 1, e - 1), arg, mode)
              IN  IF ~f.ok THEN FormatFail
                  ELSE LET r == FormatFrom(t, e + 1, arg, f.mode)
                       IN  IF r.ok THEN [r EXCEPT !.val = f.val \o @]
                           ELSE FormatFail
    ELSE LET r == FormatFrom(t, k + 1, arg, mode)
         IN  IF r.ok THEN [r EXCEPT !.val = <<t[k]>> \o @] ELSE FormatFail

Format(t, arg) == FormatFrom(t, 1, arg, "none")

\* line 192; ok = FALSE is the exception format raises
RenderPath(template, digit, i) ==
    Format(Replace(template, FieldText(digit)), Str(i))

\* os.path.basename: what follows the last '/'
Basename(p) ==
    IF \E k \in 1..Len(p) : p[k] = "/"
    THEN LET last == CHOOSE k \in 1..Len(p) :
                         p[k] = "/" /\ \A j \in (k + 1)..Len(p) : p[j] # "/"
         IN  SubSeq(p, last + 1, Len(p))
    ELSE p

\* ------------------------------------------------------------------------
\* Inputs and environment
\* ------------------------------------------------------------------------

\* urlparse(url).path of the target URLs the runs are started with
Paths ==
    { <<"/", "a", "[", "3", "-", "1", "]">>,   \* /a[3-1] : descending range
      <<"/", "[", "0", "8", "-", "1", "0", "]", ".", "j">>,   \* /[08-10].j : zero-padded start literal, value growing past the width
      <<"/", "b", "[", "2", ",", "1", "0", "]">>,   \* /b[2,10] : singletons
      <<"/", "c", "[", "1", ",", "2", "-", "3", "]">>,   \* /c[1,2-3] : singleton and range mixed
      <<"/", "[", "0", "0", "7", "]">>,   \* /[007] : zero-padded singleton
      <<"/", "a">>,   \* /a : no bracket
      <<"/", "a", "[", "]">>,   \* /a[] : empty bracket: the expression needs one character
      <<"/", "a", "[", "1", ",", "2", "-", "]">>,   \* /a[1,2-] : malformed token after a well-formed one
      <<"/", "[", "-", "]">>,   \* /[-] : malformed token first
      <<"/", "x", "[", "*", "]", "/", "[", "1", "-", "2", "]">>,   \* /x[*]/[1-2] : the text [*] written in the path itself
      <<"/", "[", "1", "-", "2", "]", "/", "[", "3", "]">>,   \* /[1-2]/[3] : two bracketed regions
      <<"/", "{", "x", "}", "[", "1", "]">>,   \* /{x}[1] : braces in the path
      <<"/", "a", "[", "1", "-", "2", "]", "/">>,   \* /a[1-2]/ : nothing after the last slash
      <<"/", "a", "[", ",", "]">>,   \* /a[,] : only separators in the bracket
      <<"/", "[", "1", "-", "2", "-", "3", "]">>,   \* /[1-2-3] : two hyphens in a token
      <<"/", "[", "-", "1", "]">>,   \* /[-1] : hyphen without a start literal
      <<"/", "a", "[", "1", "-", "2", "]", "/", "x">>,   \* /a[1-2]/x : bracket in a directory segment
      <<"/", "[", "1", ",", "1", "]">>    \* /[1,1] : a value enumerated by two tokens
    }

\* exceptions conn.request, conn.getresponse and response.read can raise
TransportErrors ==
    {"timeout", "RemoteDisconnected", "ConnectionResetError",
     "BrokenPipeError", "HTTPException"}

\* except (socket.timeout, http.client.RemoteDisconnected)
ConnectionErrors == {"timeout", "RemoteDisconnected"}

\* status codes of the responses
Statuses == {200, 404}

\* response.status < 300
StatusOk(status) == status < StatusLimit

\* mutant: only a positive remainder counts as incomplete
IncompletePositive(cl) == cl > 0

\* if content_length != 0
Incomplete(cl) == cl # 0

\* if content_length <= 0 or response.isclosed(): break
StreamDone(cl, closed) == cl <= 0 \/ closed

\* mutant: the countdown runs before every item
ShouldReconnectAlways(flag) == TRUE

\* if reconnect: do_reconnecting(conn)
ShouldReconnect(flag) == flag

\* mutant: the iteration steps over a value
AdvanceSkip(k) == k + 2

\* the step of the iteration over parse_range(r)
Advance(k) == k + 1

NoOutcome ==
    [kind |-> "None", remaining |-> 0, declared |-> 0, written |-> 0,
     exc |-> "none", via |-> "none", created |-> FALSE]

\* ------------------------------------------------------------------------
\* State
\* ------------------------------------------------------------------------

VARIABLES
    url,            \* the path of the target URL
    pc,             \* position of the run
    o,              \* result of parse_url
    ri,             \* index in o['ranges'] of the token r
    digit,          \* digit of download
    vals,           \* parse_range(r)
    vi,             \* index in vals of the next value
    i,              \* i of download
    reconnect,      \* reconnect of download
    conn,           \* "new", "open" or "closed"
    s,              \* s of do_reconnecting
    path,           \* path of download
    content_length, \* content_length of get_content
    declared,       \* the Content-Length header of the response
    written,        \* bytes written to the open file
    fileOpen,       \* the with-block of get_content holds an open file
    error,          \* the exception that ended the loop or the run
    requests,       \* history: content_path of every conn.request
    items,          \* history: the values i the loop took
    reconBefore,    \* history: do_reconnecting was entered for the item
    sleeps,         \* history: time.sleep(1) calls of the last countdown
    opened,         \* history: conn.connect() succeeded
    closes,         \* history: number of conn.close() calls
    lastOutcome,    \* history: how the last get_content ended
    out,            \* the last line written to standard output
    exitStatus,     \* exit status of the process, -1 while it runs
    files,          \* names of the files open(file_path, 'wb') has created
    allSuccess      \* history: every get_content so far ended as Success

vars ==
    <<url, pc, o, ri, digit, vals, vi, i, reconnect, conn, s, path,
      content_length, declared, written, fileOpen, error, requests, items,
      reconBefore, sleeps, opened, closes, lastOutcome, out, exitStatus,
      files, allSuccess>>

Init ==
    /\ url \in Paths
    /\ pc = "make_output_dir"
    /\ o = [ok |-> FALSE, path |-> <<>>, ranges |-> <<>>]
    /\ ri = 0
    /\ digit = 0
    /\ vals = <<>>
    /\ vi = 0
    /\ i = 0
    /\ reconnect = FALSE
    /\ conn = "new"
    /\ s = 0
    /\ path = <<>>
    /\ content_length = 0
    /\ declared = 0
    /\ written = 0
    /\ fileOpen = FALSE
    /\ error = "none"
    /\ requests = <<>>
    /\ items = <<>>
    /\ reconBefore = FALSE
    /\ sleeps = 0
    /\ opened = FALSE
    /\ closes = 0
    /\ lastOutcome = NoOutcome
    /\ out = "none"
    /\ exitStatus = -1
    /\ files = {}
    /\ allSuccess = TRUE

\* ------------------------------------------------------------------------
\* make_output_dir, lines 200-217 and 248-249
\* ------------------------------------------------------------------------

\* the directory exists or is created, os.chdir succeeds; the directory
\* is printed
MakeOutputDir ==
    /\ pc = "make_output_dir"
    /\ pc' = "parse_url"
    /\ out' = "Output directory"
    /\ UNCHANGED <<url, o, ri, digit, vals, vi, i, reconnect, conn, s, path,
                   content_length, declared, written, fileOpen, error,
                   requests, items, reconBefore, sleeps, opened, closes,
                   lastOutcome, exitStatus, files, allSuccess>>

\* os.makedirs or os.chdir raises: print(e); exit()
MakeOutputDirFails ==
    /\ pc = "make_output_dir"
    /\ pc' = "exited"
    /\ error' = "OutputDir"
    /\ out' = "exception"
    /\ exitStatus' = 0
    /\ UNCHANGED <<url, o, ri, digit, vals, vi, i, reconnect, conn, s, path,
                   content_length, declared, written, fileOpen, requests,
                   items, reconBefore, sleeps, opened, closes, lastOutcome,
                   files, allSuccess>>

\* ------------------------------------------------------------------------
\* download, lines 176-184: parse_url and the first connection
\* ------------------------------------------------------------------------

\* o = parse_url(url); its ValueError leaves download
ParseUrl ==
    /\ pc = "parse_url"
    /\ IF parse_url(url).ok
       THEN /\ o' = parse_url(url)
            /\ pc' = "connect"
            /\ UNCHANGED <<error, out, exitStatus>>
       ELSE /\ o' = o
            /\ pc' = "raised"
            /\ error' = "NoRange"
            /\ out' = "traceback"
            /\ exitStatus' = 1
    /\ UNCHANGED <<url, ri, digit, vals, vi, i, reconnect, conn, s, path,
                   content_length, declared, written, fileOpen, requests,
                   items, reconBefore, sleeps, opened, closes, lastOutcome>>
    /\ UNCHANGED <<files, allSuccess>>

\* conn.connect() of line 183 succeeds; reconnect = False; the loop starts
Connect ==
    /\ pc = "connect"
    /\ conn' = "open"
    /\ opened' = TRUE
    /\ reconnect' = FALSE
    /\ ri' = 1
    /\ pc' = "for_range"
    /\ UNCHANGED <<url, o, digit, vals, vi, i, s, path, content_length,
                   declared, written, fileOpen, error, requests, items,
                   reconBefore, sleeps, closes, lastOutcome>>
    /\ out' = "Connection"
    /\ UNCHANGED <<exitStatus, files, allSuccess>>

\* conn.connect() of line 183 raises: outside the try, it leaves download
ConnectFails ==
    /\ pc = "connect"
    /\ pc' = "raised"
    /\ error' = "ConnectError"
    /\ UNCHANGED <<url, o, ri, digit, vals, vi, i, reconnect, conn, s, path,
                   content_length, declared, written, fileOpen, requests,
                   items, reconBefore, sleeps, opened, closes, lastOutcome>>
    /\ out' = "traceback"
    /\ exitStatus' = 1
    /\ UNCHANGED <<files, allSuccess>>

\* ------------------------------------------------------------------------
\* download, lines 188-191: the two loops
\* ------------------------------------------------------------------------

\* for r in o['ranges']: digit = get_digit(r); parse_range(r)
ForRange ==
    /\ pc = "for_range"
    /\ IF ri > Len(o.ranges)
       THEN /\ pc' = "finally"
            /\ UNCHANGED <<digit, vals, vi, error>>
       ELSE IF ~get_digit(o.ranges[ri]).ok \/ ~parse_range(o.ranges[ri]).ok
       THEN /\ pc' = "except"
            /\ error' = "WrongRange"
            /\ UNCHANGED <<digit, vals, vi>>
       ELSE /\ digit' = get_digit(o.ranges[ri]).digit
            /\ vals' = parse_range(o.ranges[ri]).vals
            /\ vi' = 1
            /\ pc' = "for_item"
            /\ error' = error
    /\ UNCHANGED <<url, o, ri, i, reconnect, conn, s, path, content_length,
                   declared, written, fileOpen, requests, items, reconBefore,
                   sleeps, opened, closes, lastOutcome>>
    /\ UNCHANGED <<out, exitStatus, files, allSuccess>>

\* for i in parse_range(r): the range is exhausted, the next token follows
NextRange ==
    /\ pc = "for_item"
    /\ vi > Len(vals)
    /\ ri' = ri + 1
    /\ pc' = "for_range"
    /\ UNCHANGED <<url, o, digit, vals, vi, i, reconnect, conn, s, path,
                   content_length, declared, written, fileOpen, error,
                   requests, items, reconBefore, sleeps, opened, closes,
                   lastOutcome>>
    /\ UNCHANGED <<out, exitStatus, files, allSuccess>>

\* for i in parse_range(r): the next value; if reconnect: do_reconnecting
ForItem ==
    /\ pc = "for_item"
    /\ vi <= Len(vals)
    /\ i' = vals[vi]
    /\ vi' = Advance(vi)
    /\ items' = Append(items, vals[vi])
    /\ reconBefore' = ShouldReconnect(reconnect)
    /\ IF ShouldReconnect(reconnect)
       THEN /\ pc' = "sleep"
            /\ s' = Interval
            /\ sleeps' = 0
       ELSE /\ pc' = "format"
            /\ UNCHANGED <<s, sleeps>>
    /\ UNCHANGED <<url, o, ri, digit, vals, reconnect, conn, path,
                   content_length, declared, written, fileOpen, error,
                   requests, opened, closes, lastOutcome>>
    /\ UNCHANGED <<out, exitStatus, files, allSuccess>>

\* ------------------------------------------------------------------------
\* do_reconnecting
\* ------------------------------------------------------------------------

\* one pass of for s in range(interval, -1, -1): print; time.sleep(1)
Tick ==
    /\ pc = "sleep"
    /\ s > -1
    /\ s' = s - 1
    /\ sleeps' = sleeps + 1
    /\ UNCHANGED <<url, pc, o, ri, digit, vals, vi, i, reconnect, conn, path,
                   content_length, declared, written, fileOpen, error,
                   requests, items, reconBefore, opened, closes, lastOutcome>>
    /\ out' = "countdown"
    /\ UNCHANGED <<exitStatus, files, allSuccess>>

\* the countdown is over and conn.connect() succeeds
Reconnect ==
    /\ pc = "sleep"
    /\ s = -1
    /\ conn' = "open"
    /\ pc' = "format"
    /\ UNCHANGED <<url, o, ri, digit, vals, vi, i, reconnect, s, path,
                   content_length, declared, written, fileOpen, error,
                   requests, items, reconBefore, sleeps, opened, closes,
                   lastOutcome>>
    /\ out' = "Reconnecting"
    /\ UNCHANGED <<exitStatus, files, allSuccess>>

\* the countdown is over and conn.connect() raises: the try of download
\* catches it
ReconnectFails ==
    /\ pc = "sleep"
    /\ s = -1
    /\ pc' = "except"
    /\ error' = "ConnectError"
    /\ UNCHANGED <<url, o, ri, digit, vals, vi, i, reconnect, conn, s, path,
                   content_length, declared, written, fileOpen, requests,
                   items, reconBefore, sleeps, opened, closes, lastOutcome>>
    /\ UNCHANGED <<out, exitStatus, files, allSuccess>>

\* ------------------------------------------------------------------------
\* download, line 192: the item's path
\* ------------------------------------------------------------------------

Render ==
    /\ pc = "format"
    /\ IF RenderPath(o.path, digit, i).ok
       THEN /\ path' = RenderPath(o.path, digit, i).val
            /\ pc' = "request"
            /\ error' = error
       ELSE /\ path' = path
            /\ pc' = "except"
            /\ error' = "FormatError"
    /\ UNCHANGED <<url, o, ri, digit, vals, vi, i, reconnect, conn, s,
                   content_length, declared, written, fileOpen, requests,
                   items, reconBefore, sleeps, opened, closes, lastOutcome>>
    /\ UNCHANGED <<out, exitStatus, files, allSuccess>>

\* ------------------------------------------------------------------------
\* get_content
\* ------------------------------------------------------------------------

\* what download keeps while get_content runs
DownloadFrame == <<url, o, ri, digit, vals, vi, i, conn, s, path, error,
                   items, reconBefore, sleeps, opened, closes, exitStatus>>

\* mutant: the flag is accumulated over the attempts
FinishSticky(kind, rv, rem, e, via, line) ==
    /\ lastOutcome' = [kind |-> kind, remaining |-> rem,
                       declared |-> declared, written |-> written,
                       exc |-> e, via |-> via, created |-> fileOpen]
    /\ out' = line
    /\ allSuccess' = (allSuccess /\ kind = "Success")
    /\ reconnect' = (reconnect \/ rv)
    /\ pc' = "for_item"
    /\ fileOpen' = FALSE
    /\ content_length' = 0
    /\ declared' = 0
    /\ written' = 0

\* get_content returns rv after line was the last thing it printed; its
\* locals are gone and the with-block has closed the file
Finish(kind, rv, rem, e, via, line) ==
    /\ lastOutcome' = [kind |-> kind, remaining |-> rem,
                       declared |-> declared, written |-> written,
                       exc |-> e, via |-> via, created |-> fileOpen]
    /\ out' = line
    /\ allSuccess' = (allSuccess /\ kind = "Success")
    /\ reconnect' = rv
    /\ pc' = "for_item"
    /\ fileOpen' = FALSE
    /\ content_length' = 0
    /\ declared' = 0
    /\ written' = 0

\* mutant: every caught exception asks for a reconnect
CaughtReconnectsAlways(e, via) ==
    IF e \in ConnectionErrors
    THEN Finish("FailedConnection", TRUE, 0, e, via, "exception")
    ELSE Finish("Unexpected", TRUE, 0, e, via, "exception")

\* mutant: the file is not closed when an exception ends the attempt
CaughtLeavesFileOpen(e, via) ==
    /\ lastOutcome' = [kind |-> IF e \in ConnectionErrors
                                THEN "FailedConnection" ELSE "Unexpected",
                       remaining |-> 0, declared |-> declared,
                       written |-> written, exc |-> e, via |-> via,
                       created |-> fileOpen]
    /\ out' = "exception"
    /\ allSuccess' = FALSE
    /\ reconnect' = (e \in ConnectionErrors)
    /\ pc' = "for_item"
    /\ fileOpen' = fileOpen
    /\ content_length' = 0
    /\ declared' = 0
    /\ written' = 0

\* the two except clauses, lines 139-144
Caught(e, via) ==
    IF e \in ConnectionErrors
    THEN Finish("FailedConnection", TRUE, 0, e, via, "exception")
    ELSE Finish("Unexpected", FALSE, 0, e, via, "exception")

\* lines 119-120 print the progress line; conn.request or
\* conn.getresponse raises
RequestRaises ==
    /\ pc = "request"
    /\ requests' = Append(requests, path)
    /\ \E e \in TransportErrors : Caught(e, "request")
    /\ UNCHANGED DownloadFrame
    /\ UNCHANGED files

\* a response with status >= 300: print the result, response.read()
RequestStatusError ==
    /\ pc = "request"
    /\ requests' = Append(requests, path)
    /\ \E st \in Statuses :
          /\ ~StatusOk(st)
          /\ \/ Finish("FailedStatus", FALSE, 0, "none", "status", "result")
             \/ \E e \in TransportErrors : Caught(e, "status")
    /\ UNCHANGED DownloadFrame
    /\ UNCHANGED files

\* status < 300 and int(response.getheader('Content-Length')) raises:
\* the header is missing (TypeError) or is not a number (ValueError)
RequestBadHeader ==
    /\ pc = "request"
    /\ requests' = Append(requests, path)
    /\ \E st \in Statuses :
          /\ StatusOk(st)
          /\ \E e \in {"TypeError", "ValueError"} : Caught(e, "header")
    /\ UNCHANGED DownloadFrame
    /\ UNCHANGED files

\* status < 300, the header is read, open(file_path, 'wb') raises; it
\* always does for the empty file name
RequestOpenFails ==
    /\ pc = "request"
    /\ requests' = Append(requests, path)
    /\ \E st \in Statuses :
          /\ StatusOk(st)
          /\ Caught("OSError", "open")
    /\ UNCHANGED DownloadFrame
    /\ UNCHANGED files

\* status < 300, the header is read and the file is open
RequestStream ==
    /\ pc = "request"
    /\ Basename(path) # <<>>
    /\ requests' = Append(requests, path)
    /\ \E st \in Statuses, L \in 0..MaxLen :
          /\ StatusOk(st)
          /\ content_length' = L
          /\ declared' = L
    /\ written' = 0
    /\ fileOpen' = TRUE
    /\ pc' = "stream"
    /\ UNCHANGED <<reconnect, lastOutcome>>
    /\ UNCHANGED DownloadFrame
    /\ out' = "progress"
    /\ files' = files \cup {Basename(path)}
    /\ UNCHANGED allSuccess

\* while chunk := response.read(4096): f.write(chunk); content_length -= len
\* The transport hands over at most 4096 bytes, whatever the header said.
StreamChunk ==
    /\ pc = "stream"
    /\ \E n \in 1..(MaxBody - written) :
          /\ n <= ChunkSize
          /\ written' = written + n
          /\ content_length' = content_length - n
    /\ UNCHANGED <<pc, declared, fileOpen, reconnect, requests, lastOutcome>>
    /\ UNCHANGED DownloadFrame
    /\ UNCHANGED <<out, files, allSuccess>>

\* response.read returns b'': the body is over and http.client has closed
\* the response, so isclosed() holds at line 132; lines 133-135 and 144
StreamEnd ==
    /\ pc = "stream"
    /\ IF ~StreamDone(content_length, TRUE)
       THEN UNCHANGED <<pc, content_length, declared, written, fileOpen,
                        reconnect, lastOutcome, out, allSuccess>>
       ELSE IF Incomplete(content_length)
       THEN Finish("FailedIncomplete", TRUE, content_length, "none", "eof",
                   "disconnected")
       ELSE Finish("Success", FALSE, 0, "none", "eof", out)
    /\ UNCHANGED requests
    /\ UNCHANGED DownloadFrame
    /\ UNCHANGED files

\* response.read or f.write raises inside the with-block
StreamRaises ==
    /\ pc = "stream"
    /\ \E e \in TransportErrors \cup {"OSError"} : Caught(e, "stream")
    /\ UNCHANGED requests
    /\ UNCHANGED DownloadFrame
    /\ UNCHANGED files

\* ------------------------------------------------------------------------
\* download, lines 194-197
\* ------------------------------------------------------------------------

\* mutant: the connection is closed on the normal path only
ExceptWithoutClose ==
    /\ pc = "except"
    /\ pc' = "done"
    /\ UNCHANGED <<url, o, ri, digit, vals, vi, i, reconnect, conn, s, path,
                   content_length, declared, written, fileOpen, error,
                   requests, items, reconBefore, sleeps, opened, closes,
                   lastOutcome>>
    /\ out' = "exception"
    /\ UNCHANGED <<exitStatus, files, allSuccess>>

\* except Exception as e: print(e)
Except ==
    /\ pc = "except"
    /\ pc' = "finally"
    /\ UNCHANGED <<url, o, ri, digit, vals, vi, i, reconnect, conn, s, path,
                   content_length, declared, written, fileOpen, error,
                   requests, items, reconBefore, sleeps, opened, closes,
                   lastOutcome>>
    /\ out' = "exception"
    /\ UNCHANGED <<exitStatus, files, allSuccess>>

\* finally: conn.close()
Finally ==
    /\ pc = "finally"
    /\ conn' = "closed"
    /\ closes' = closes + 1
    /\ pc' = "done"
    /\ UNCHANGED <<url, o, ri, digit, vals, vi, i, reconnect, s, path,
                   content_length, declared, written, fileOpen, error,
                   requests, items, reconBefore, sleeps, opened, lastOutcome>>
    /\ exitStatus' = 0
    /\ UNCHANGED <<out, files, allSuccess>>

Next ==
    \/ MakeOutputDir
    \/ MakeOutputDirFails
    \/ ParseUrl
    \/ Connect
    \/ ConnectFails
    \/ ForRange
    \/ NextRange
    \/ ForItem
    \/ Tick
    \/ Reconnect
    \/ ReconnectFails
    \/ Render
    \/ RequestRaises
    \/ RequestStatusError
    \/ RequestBadHeader
    \/ RequestOpenFails
    \/ RequestStream
    \/ StreamChunk
    \/ StreamEnd
    \/ StreamRaises
    \/ Except
    \/ Finally

Spec == Init /\ [][Next]_vars

\* ------------------------------------------------------------------------
\* Vocabulary of the properties
\* ------------------------------------------------------------------------

\* the positions between the start of an item and the end of its attempt
InItem == pc \in {"sleep", "format", "request", "stream"}

ReconnectKinds == {"FailedIncomplete", "FailedConnection"}

Max(a, b) == IF a >= b THEN a ELSE b

Min(a, b) == IF a <= b THEN a ELSE b

\* the first number literal of a token: what precedes its first hyphen
FirstLiteral(t) ==
    IF \E k \in 1..Len(t) : t[k] = "-"
    THEN SubSeq(t, 1, (CHOOSE k \in 1..Len(t) :
                          t[k] = "-" /\ \A j \in 1..(k - 1) : t[j] # "-") - 1)
    ELSE t

\* what follows the first hyphen of a token, the token itself when it has none
SecondLiteral(t) ==
    IF \E k \in 1..Len(t) : t[k] = "-"
    THEN SubSeq(t, (CHOOSE k \in 1..Len(t) :
                       t[k] = "-" /\ \A j \in 1..(k - 1) : t[j] # "-") + 1,
                Len(t))
    ELSE t

\* singleton or dash-range of digits
ValidToken(t) ==
    \/ AllDigits(t)
    \/ AllDigits(FirstLiteral(t)) /\ AllDigits(SecondLiteral(t))

Ascending(lo, hi) == [k \in 1..(hi - lo + 1) |-> lo + k - 1]

\* the integers a valid token stands for, ascending
TokenValues(t) ==
    Ascending(Min(ToInt(FirstLiteral(t)), ToInt(SecondLiteral(t))),
              Max(ToInt(FirstLiteral(t)), ToInt(SecondLiteral(t))))

\* the values of the tokens in token order, up to the first malformed token
RECURSIVE ExpectedValues(_)
ExpectedValues(ts) ==
    IF Len(ts) = 0 \/ ~ValidToken(Head(ts)) THEN <<>>
    ELSE TokenValues(Head(ts)) \o ExpectedValues(Tail(ts))

\* the paths of the enumerated items, in enumeration order
RECURSIVE ExpectedPaths(_, _)
ExpectedPaths(template, ts) ==
    IF Len(ts) = 0 \/ ~ValidToken(Head(ts)) THEN <<>>
    ELSE [k \in 1..Len(TokenValues(Head(ts))) |->
             RenderPath(template, Len(FirstLiteral(Head(ts))),
                        TokenValues(Head(ts))[k]).val]
         \o ExpectedPaths(template, Tail(ts))

IsPrefix(a, b) == Len(a) <= Len(b) /\ a = SubSeq(b, 1, Len(a))

AllValid(ts) == \A k \in 1..Len(ts) : ValidToken(ts[k])

MarkerCount(p) == Cardinality({k \in 1..Len(p) : IsMarkerAt(p, k)})

HasBrace(p) == \E k \in 1..Len(p) : p[k] = "{" \/ p[k] = "}"

\* the text of the URL path before its first bracketed region
Before(p) == SubSeq(p, 1, MatchStart(p) - 1)

\* the text of the URL path after its first bracketed region
After(p) == SubSeq(p, MatchClose(p) + 1, Len(p))

\* v is the decimal numeral of n left-padded with '0' to at least width w
IsPadded(v, w, n) ==
    /\ Len(v) = Max(w, Len(Str(n)))
    /\ SubSeq(v, Len(v) - Len(Str(n)) + 1, Len(v)) = Str(n)
    /\ \A k \in 1..(Len(v) - Len(Str(n))) : v[k] = "0"

RECURSIVE Flatten(_)
Flatten(ts) == IF Len(ts) = 0 THEN <<>> ELSE Head(ts) \o Flatten(Tail(ts))

RECURSIVE WithoutCommas(_)
WithoutCommas(t) ==
    IF Len(t) = 0 THEN <<>>
    ELSE IF Head(t) = "," THEN WithoutCommas(Tail(t))
    ELSE <<Head(t)>> \o WithoutCommas(Tail(t))

\* ------------------------------------------------------------------------
\* Properties
\* ------------------------------------------------------------------------

\* C1: for consecutive items k and k+1 (also across tokens), the countdown
\* and reconnect run before item k+1's request if and only if get_content
\* for item k ended as FailedIncomplete or FailedConnection; a FailedStatus
\* outcome never leads to a reconnect, and the request of an item that was
\* preceded by do_reconnecting is sent only when the countdown is over.
C1_ReconnectIffFailed ==
    /\ (InItem /\ Len(items) >= 2)
          => (reconBefore <=> lastOutcome.kind \in ReconnectKinds)
    /\ (InItem /\ Len(items) = 1) => ~reconBefore
    /\ (pc \in {"format", "request", "stream"} /\ reconBefore) => s = -1
    /\ (pc = "sleep") => reconBefore

\* an item in another token than its predecessor is requested after a
\* reconnect that followed a connection failure
C1_Witness ==
    /\ pc = "request"
    /\ ri = 2
    /\ vi = 2
    /\ reconBefore
    /\ lastOutcome.kind = "FailedConnection"

\* C2: the requests issued are a prefix of the enumerated paths, in
\* enumeration order and one per enumerated item (a failed item is not
\* requested again), and an item's request starts only when the previous
\* attempt has ended (file closed) and any countdown is over.
C2_RequestsFollowEnumeration ==
    /\ IsPrefix(requests, ExpectedPaths(o.path, o.ranges))
    /\ Len(requests) <= Len(items)
    /\ pc = "request" =>
          /\ Len(requests) = Len(items) - 1
          /\ ~fileOpen
          /\ reconBefore => s = -1

\* the item after a failed one is requested, after the reconnect
C2_Witness ==
    /\ Len(requests) = 2
    /\ requests[1] # requests[2]
    /\ reconBefore
    /\ pc = "stream"

\* C3: when every token is well formed, a finished run has attempted every
\* enumerated item, whatever happened to the earlier items.
C3_AllItemsAttempted ==
    (pc = "done" /\ AllValid(o.ranges))
        => Len(requests) = Len(ExpectedValues(o.ranges))

\* C4: a missing range or a malformed token ends the run before any
\* network activity: no connection was opened and no request was sent.
C4_RangeErrorsBeforeNetwork ==
    error \in {"NoRange", "WrongRange"} => (~opened /\ requests = <<>>)

\* C5: in every run that opened the connection, conn.close() is called
\* exactly once, as the last step of the run, whether the loop finished or
\* an error cut it short; no exception leaves download once the connection
\* is open, and nothing is requested or reconnected after the close.
C5_ClosedAtEnd ==
    /\ closes <= 1
    /\ (closes = 1) <=> (conn = "closed")
    /\ (conn = "closed") => (pc = "done" /\ ~fileOpen)
    /\ (opened /\ pc \in {"done", "raised"}) => conn = "closed"
    /\ opened => pc # "raised"
    /\ (pc \in {"except", "finally"}) => (opened /\ conn = "open")

\* a run cut short by a failed reconnect has closed the connection
C5_Witness ==
    /\ pc = "done"
    /\ error = "ConnectError"
    /\ opened
    /\ closes = 1
    /\ conn = "closed"

\* C6: when the body of a status < 300 response with declared length L ends
\* after W bytes were written, get_content reports FailedIncomplete with
\* remaining = L - W and returns True exactly when L - W # 0, and ends as
\* Success returning False exactly when W = L; the next item then starts
\* with the countdown exactly in the first case.
C6_IncompleteIffBytesMissing ==
    lastOutcome.via = "eof" =>
        /\ lastOutcome.kind \in {"FailedIncomplete", "Success"}
        /\ (lastOutcome.kind = "FailedIncomplete")
              <=> (lastOutcome.declared - lastOutcome.written # 0)
        /\ (lastOutcome.kind = "Success")
              <=> (lastOutcome.written = lastOutcome.declared)
        /\ (lastOutcome.kind = "FailedIncomplete")
              => (lastOutcome.remaining
                     = lastOutcome.declared - lastOutcome.written)
        /\ reconnect <=> (lastOutcome.declared - lastOutcome.written # 0)
        /\ (InItem /\ Len(items) >= 2)
              => (reconBefore
                    <=> (lastOutcome.declared - lastOutcome.written # 0))

\* a body that ended one byte short of the two declared, and the countdown
\* that starts the next item
C6_Witness ==
    /\ pc = "sleep"
    /\ lastOutcome.via = "eof"
    /\ lastOutcome.kind = "FailedIncomplete"
    /\ lastOutcome.declared = 2
    /\ lastOutcome.written = 1
    /\ lastOutcome.remaining = 1

\* C7: every timeout or abrupt disconnect during the request, the wait for
\* the response or the streaming (connection reset and broken pipe
\* included) ends the attempt as FailedConnection with reconnect needed.
C7_DisconnectIsFailedConnection ==
    lastOutcome.exc \in {"timeout", "RemoteDisconnected",
                         "ConnectionResetError", "BrokenPipeError"}
        => (lastOutcome.kind = "FailedConnection" /\ reconnect)

\* C8: for a valid token parse_range yields the integers from min(a, b) to
\* max(a, b) ascending (one value for a singleton), also for a descending
\* token, and the loop takes the per-token enumerations in token order.
C8_AscendingEnumeration ==
    /\ (InItem \/ pc = "for_item") =>
          /\ ValidToken(o.ranges[ri])
          /\ vals = TokenValues(o.ranges[ri])
    /\ IsPrefix(items, ExpectedValues(o.ranges))
    /\ (pc = "done" /\ error = "none") => items = ExpectedValues(o.ranges)

\* the descending token 3-1 was enumerated as 1, 2, 3
C8_Witness ==
    /\ pc = "done"
    /\ error = "none"
    /\ o.ranges = << <<"3", "-", "1">> >>
    /\ items = <<1, 2, 3>>

C10_ExactlyOneMarker ==
    o.ok =>
        /\ MarkerCount(o.path) = 1
        /\ o.path = Before(url) \o Marker \o After(url)
        /\ Flatten(o.ranges)
              = WithoutCommas(SubSeq(url, MatchStart(url) + 1,
                                     MatchClose(url) - 1))
        /\ (\A k \in 1..Len(o.ranges) : Len(o.ranges[k]) > 0)
        /\ (pc = "format" /\ ~HasBrace(url))
              => RenderPath(o.path, digit, i).ok

\* the lines get_content prints after an attempt
ResultLines == {"result", "disconnected", "exception"}

\* the run is over
Ended == pc \in {"done", "raised", "exited"}

\* C11: every fatal error (no range, malformed token, output directory)
\* prints a diagnostic and ends the process with a nonzero exit status;
\* every per-item failure prints a diagnostic and the run goes on.
C11_FatalErrorsExitNonzero ==
    /\ (Ended /\ error \in {"NoRange", "WrongRange", "OutputDir"})
          => (exitStatus # 0 /\ out \in {"exception", "traceback"})
    /\ (pc = "for_item" /\ lastOutcome.kind \notin {"None", "Success"})
          => out \in ResultLines

\* C12: a countdown sleeps exactly Interval times, and the connection is
\* re-established after the last sleep, before the item's request.
C12_SleepsEqualInterval ==
    /\ (pc = "sleep" /\ s = -1) => sleeps = Interval
    /\ (pc \in {"format", "request", "stream"} /\ reconBefore)
          => (sleeps = Interval /\ s = -1)

\* C13: every attempt prints the progress line before its request and a
\* result or diagnostic line when it has ended, before the next item.
C13_ResultLineAfterAttempt ==
    /\ pc = "stream" => out = "progress"
    /\ (pc = "for_item" /\ lastOutcome.kind # "None") => out \in ResultLines

\* C14: an exception during an attempt that is neither a timeout nor a
\* disconnect (missing or non-numeric Content-Length, failure to open the
\* file, ...) is reported, the item counts as failed, reconnect stays
\* False and the next item is requested without a countdown.
C14_UnexpectedNoReconnect ==
    /\ lastOutcome.exc \in {"TypeError", "ValueError", "OSError",
                            "HTTPException"}
          => lastOutcome.kind = "Unexpected"
    /\ lastOutcome.kind = "Unexpected" =>
          /\ ~reconnect
          /\ ~allSuccess
          /\ pc # "sleep"
          /\ pc = "for_item" => out = "exception"
          /\ (InItem /\ Len(items) >= 2) => ~reconBefore

\* after a missing Content-Length the next item is at its request, no
\* countdown before it
C14_Witness ==
    /\ pc = "request"
    /\ Len(items) = 2
    /\ Len(requests) = 1
    /\ lastOutcome.exc = "TypeError"
    /\ lastOutcome.kind = "Unexpected"
    /\ ~reconBefore

\* C15: get_digit and parse_range accept exactly the tokens that are all
\* digits or digits-hyphen-digits and raise for every other token, so the
\* loop enters a token only when it is valid and parse_range never fails
\* where get_digit succeeded.
C15_SameTokensAccepted ==
    /\ \A k \in 1..Len(o.ranges) :
          /\ get_digit(o.ranges[k]).ok <=> ValidToken(o.ranges[k])
          /\ parse_range(o.ranges[k]).ok <=> ValidToken(o.ranges[k])
    /\ (InItem \/ pc = "for_item") => ValidToken(o.ranges[ri])
    /\ error = "WrongRange" => ~ValidToken(o.ranges[ri])

\* the token 1-2-3 was refused
C15_Witness ==
    /\ pc = "done"
    /\ error = "WrongRange"
    /\ o.ranges = << <<"1", "-", "2", "-", "3">> >>
    /\ requests = <<>>

\* C16: when parse_url succeeds the token list is non-empty and holds no
\* empty token; a bracket without tokens is an error and no run ends
\* normally with zero items.
C16_TokensNonEmpty ==
    /\ o.ok => /\ Len(o.ranges) > 0
               /\ \A k \in 1..Len(o.ranges) : Len(o.ranges[k]) > 0
    /\ (pc = "done" /\ error = "none") => Len(items) > 0

\* C17: after a run in which every item succeeded there are as many files
\* as enumerated items: distinct items never write to the same file name.
C17_OneFilePerItem ==
    (pc = "done" /\ error = "none" /\ allSuccess)
        => Cardinality(files) = Len(items)

\* C18: the streaming loop stops once the declared length has been
\* received: the bytes written never exceed the declared length.
C18_NeverWritesPastLength ==
    /\ pc = "stream" => written <= declared
    /\ lastOutcome.via = "eof" => lastOutcome.written <= lastOutcome.declared

\* C19: a file is created only after a status < 300 response whose
\* Content-Length was read, it is open only while that attempt streams,
\* every way out of the attempt closes it before the next item's countdown
\* or request, and a status >= 300 response creates no file.
C19_FileScopedToAttempt ==
    /\ fileOpen <=> pc = "stream"
    /\ lastOutcome.created <=> lastOutcome.via \in {"eof", "stream"}
    /\ lastOutcome.kind = "FailedStatus" => ~lastOutcome.created
    /\ \A f \in files : \E k \in 1..Len(requests) : Basename(requests[k]) = f
    /\ (requests = <<>>) => files = {}

\* a timeout in the middle of the body: the file is closed when the next
\* item's countdown runs
C19_Witness ==
    /\ pc = "sleep"
    /\ lastOutcome.via = "stream"
    /\ lastOutcome.exc = "timeout"
    /\ lastOutcome.created
    /\ ~fileOpen

\* C20: the reconnect flag is that of the most recent attempt only, a
\* countdown runs only as the first step of a following item, and when the
\* last item ends as FailedIncomplete or FailedConnection the run goes to
\* conn.close() with no countdown and no reconnect after the failure.
C20_FlagConsumedByNextItem ==
    /\ lastOutcome.kind # "None"
          => (reconnect <=> lastOutcome.kind \in ReconnectKinds)
    /\ pc = "sleep" => (reconBefore /\ Len(items) = Len(requests) + 1)
    /\ (pc \in {"finally", "done"} /\ error = "none") =>
          /\ Len(items) = Len(requests)
          /\ items = ExpectedValues(o.ranges)
          /\ lastOutcome.kind \in ReconnectKinds
                => out \in {"disconnected", "exception"}

\* the third and last item ended incomplete and the run is over
C20_Witness ==
    /\ pc = "done"
    /\ error = "none"
    /\ Len(requests) = 3
    /\ lastOutcome.kind = "FailedIncomplete"
    /\ reconnect
    /\ out = "disconnected"

====
